---- MODULE Spec2Model ----
(***************************************************************************)
(* OPTIMET: the MPI communicator handle (MpiCommunicator.h), its generic   *)
(* collectives, the neighbour-topology collectives its unit tests          *)
(* exercise, the block-cyclic matrix (scalapack/Matrix.h) and the list of  *)
(* scatterers of a geometry (Geometry.cpp).                                *)
(*                                                                         *)
(* Spec       the Communicator objects of one process: construction, copy, *)
(*            destruction, split and duplicate, the other members of each  *)
(*            group being that process's environment.                      *)
(* SpecSplit  split called by every member of a group.                     *)
(* SpecColl   broadcast or gather called by every process on its handle    *)
(*            over the world group.                                        *)
(* SpecGraph  a neighbour-topology group built by every process, and       *)
(*            allgather called on it.                                      *)
(* SpecGraphLive  the same, every process running its calls to the end.    *)
(* SpecVector    allgatherv or iallgatherv called on such a group.         *)
(* SpecMatrix    a Matrix constructed and written on every process.        *)
(* SpecTransfer  a matrix moved to another layout and back by              *)
(*               transfer_to(context, blocks, index).                      *)
(* SpecTransferLive  the same, every process running its calls to the end. *)
(* SpecStaging   the same moves by either overload of transfer_to.         *)
(* SpecGeometry  pushObject, no_overlap and is_valid on one Geometry.      *)
(***************************************************************************)
EXTENDS Integers, Sequences, FiniteSets, TLC

\* ------------------------------------------------------------------ bounds
\* Number of processes the runtime started (MPI_Comm_size of the world group).
NProcs == 3
\* Communicator objects a process can hold at once.
MaxHandles == 3
\* Identifiers the runtime has for native groups, the world group's included.
MaxComms == 4
\* Native groups the handles of the observed process can hold at once, the world
\* group included.
MaxGroups == 3
\* Largest colour passed to split.
MaxColor == 1
\* Largest key passed to the two-argument split.
MaxKey == 1
\* Largest value a process passes to broadcast, gather or allgather.
MaxVal == 1
\* Longest vector a process passes to allgatherv or iallgatherv.
MaxLen == 2
\* Largest number of rows, and of columns, of a process grid.
MaxGrid == 2
\* Largest number of rows, and of columns, of a distributed matrix.
MaxSize == 3
\* Largest number of rows, and of columns, of a cyclic block.
MaxBlock == 2
\* Scatterers a geometry can hold.
MaxObjects == 3
\* Largest coordinate of the centre of a scatterer, on a lattice.
MaxCoord == 3
\* Largest radius of a scatterer.
MaxRadius == 2

Proc == 0 .. (NProcs - 1)
HandleId == 1 .. MaxHandles
ImplId == 1 .. MaxHandles
CommId == 0 .. (MaxComms - 1)
Colors == 0 .. MaxColor
Keys == 0 .. MaxKey
Vals == 0 .. MaxVal

\* ------------------------------------------------------- program constants
\* The distinguished group every process belongs to; the runtime creates it.
MPI_COMM_WORLD == 0
\* An empty std::shared_ptr<Impl const>.
nullptr == 0
\* static constexpr t_uint root_id()
root_id == 0

VARIABLES
  comms,      \* the runtime: native group -> its members in rank order (<<>>: no such group)
  mpi_error,  \* the runtime: MPI_Comm_free was called on something that is no group
  handles,    \* per process: Communicator objects, each holding the pointer impl
  impls,      \* per process: the heap-allocated Impl{comm, size, rank} objects
  use_count,  \* per process: the shared_ptr control blocks' counts (0: no such Impl)
  last,       \* the operation that ran last, with its arguments and results
  me,         \* the process Spec observes
  pc,         \* per process: where it is in the collective it called
  args,       \* per process: the arguments of the call it is in
  granted,    \* the runtime: the new group MPI_Comm_split hands each caller
  result,     \* per process: the result buffer of the collective it called
  wire,       \* the runtime: the messages sent and not yet received
  plan,       \* the collective the program calls, with the root or the tables it uses
  topology,   \* the runtime: native group -> the adjacency of each rank (<<>>: none)
  request,    \* per process: the Request its non-blocking collective returned
  job,        \* the contexts and the layouts the program builds its matrices with
  matrices,   \* per matrix and process: the scalapack::Matrix object (context_, blacs_, matrix_)
  call,       \* per process: where it is in its redistributions, and the staging context
  channel,    \* the runtime: the pieces of matrices sent and not yet received
  objects,    \* Geometry::objects, the scatterers of the geometry in the order pushed
  outcome     \* the call of Geometry that returned last, with its argument and what it gave

\* What the handle layer and the generic collectives leave alone.
gvars == <<objects, outcome>>
dvars == <<job, matrices, call, channel, gvars>>
xvars == <<request, dvars>>
hvars == <<comms, mpi_error, handles, impls, use_count, last, me, xvars>>
mvars == <<result, wire, plan, topology>>
cvars == <<pc, args, granted, mvars>>

\* ------------------------------------------------------------------ helpers
NoObject == [live |-> FALSE, impl |-> nullptr]
NoImpl == [comm |-> MPI_COMM_WORLD, size |-> 0, rank |-> 0]
NoOne == [p \in Proc |-> 0]
\* comm: the group of the handle a destructor ran on; freed: the groups it released.
Idle == [op |-> "none", comm |-> {}, freed |-> {}, src |-> NoOne, dst |-> NoOne,
         color |-> NoOne, key |-> NoOne]

\* MPI_Comm_size / MPI_Comm_rank of a native group with members m (rank order).
MPI_Comm_size(m) == Len(m)
MPI_Comm_rank(m, p) == (CHOOSE i \in 1 .. Len(m) : m[i] = p) - 1
Members(m) == {m[i] : i \in 1 .. Len(m)}

Created(c) == comms[c] # <<>>
FreeComms == {c \in CommId : ~Created(c)}
\* The runtime hands out the lowest unused group identifiers first.
NextComm == CHOOSE c \in FreeComms : \A d \in FreeComms : c <= d
\* The observed process can take one more group.
CanCreate == FreeComms # {} /\ Cardinality({c \in CommId : Created(c)}) < MaxGroups

Live(p, h) == handles[p][h].live
HasSlot(p) == \E h \in HandleId : ~Live(p, h)
FreeSlot(p) == CHOOSE h \in HandleId : ~Live(p, h) /\ \A g \in HandleId : ~Live(p, g) => h <= g
FreeImpl(p) ==
  CHOOSE i \in ImplId : use_count[p][i] = 0 /\ \A j \in ImplId : use_count[p][j] = 0 => i <= j

\* ------------------------------------------------------- Communicator queries
\* A size() that reports no process at all for the handle over no group.
sizeZeroWhenNull(p, h) ==
  IF handles[p][h].impl # nullptr THEN impls[p][handles[p][h].impl].size ELSE 0

\* decltype(Impl::size) size() const { return impl ? impl->size : 1; }
size(p, h) ==
  IF handles[p][h].impl # nullptr THEN impls[p][handles[p][h].impl].size ELSE 1

\* decltype(Impl::rank) rank() const { return impl ? impl->rank : 0; }
rank(p, h) ==
  IF handles[p][h].impl # nullptr THEN impls[p][handles[p][h].impl].rank ELSE 0

\* decltype(Impl::comm) operator*() const { return impl->comm; }
Deref(p, h) == impls[p][handles[p][h].impl].comm

\* bool is_root() const { return rank() == root_id(); }
is_root(p, h) == rank(p, h) = root_id

\* The tests' same-underlying-group test, *a == *b.
SameComm(p, h, g) == Deref(p, h) = Deref(p, g)

\* A live handle of p that holds an Impl.
Wraps(p, h) == Live(p, h) /\ handles[p][h].impl # nullptr
\* A live handle of p over native group c.
HandleOn(p, h, c) == Wraps(p, h) /\ Deref(p, h) = c

\* ------------------------------------------------------------ the runtime
\* MPI_Comm_split: the members of m that passed colour col, ordered by key,
\* ties broken by the rank in m.
Before(m, key, x, y) ==
  \/ key[x] < key[y]
  \/ key[x] = key[y] /\ MPI_Comm_rank(m, x) <= MPI_Comm_rank(m, y)

RECURSIVE SortByKey(_, _, _)
SortByKey(S, m, key) ==
  IF S = {} THEN <<>>
  ELSE LET first == CHOOSE x \in S : \A y \in S : Before(m, key, x, y)
       IN <<first>> \o SortByKey(S \ {first}, m, key)

\* The new groups the processes of P are handed, one per colour they passed, in
\* the order of the colours.
ColorsUsed(P, color) == {color[p] : p \in P}
NewCommOf(P, color, col) == NextComm + Cardinality({x \in ColorsUsed(P, color) : x < col})
MPI_Comm_split(P, c, color, key) ==
  LET new == {NewCommOf(P, color, col) : col \in ColorsUsed(P, color)}
  IN [d \in CommId |->
        IF d \in new
          THEN LET col == CHOOSE x \in ColorsUsed(P, color) : NewCommOf(P, color, x) = d
               IN SortByKey({q \in Members(comms[c]) : color[q] = col}, comms[c], key)
          ELSE comms[d]]

\* MPI_Comm_dup: a new group with the members of c in the same order.
MPI_Comm_dup(c) == [comms EXCEPT ![NextComm] = comms[c]]

\* --------------------------------------------- construction and destruction
\* Communicator(MPI_Comm const &comm): a new Impl{comm, size, rank} owned by a new
\* control block, in the first unused object slot of p. cs is the runtime's table.
WrapHandles(p, c, cs) ==
  [handles[p] EXCEPT ![FreeSlot(p)] = [live |-> TRUE, impl |-> FreeImpl(p)]]
WrapImpls(p, c, cs) ==
  [impls[p] EXCEPT ![FreeImpl(p)] =
     [comm |-> c, size |-> MPI_Comm_size(cs[c]), rank |-> MPI_Comm_rank(cs[c], p)]]
WrapCount(p, c, cs) == [use_count[p] EXCEPT ![FreeImpl(p)] = 1]

\* Communicator() : Communicator(MPI_COMM_WORLD){}
ConstructWorld(p) ==
  /\ HasSlot(p)
  /\ Created(MPI_COMM_WORLD)
  /\ handles' = [handles EXCEPT ![p] = WrapHandles(p, MPI_COMM_WORLD, comms)]
  /\ impls' = [impls EXCEPT ![p] = WrapImpls(p, MPI_COMM_WORLD, comms)]
  /\ use_count' = [use_count EXCEPT ![p] = WrapCount(p, MPI_COMM_WORLD, comms)]
  /\ last' = [Idle EXCEPT !.op = "world", !.dst[p] = FreeSlot(p)]
  /\ UNCHANGED <<comms, mpi_error, me, xvars, cvars>>

\* The degenerate handle over no group: impl stays empty.
ConstructNoGroup(p) ==
  /\ HasSlot(p)
  /\ handles' = [handles EXCEPT ![p][FreeSlot(p)] = [live |-> TRUE, impl |-> nullptr]]
  /\ last' = [Idle EXCEPT !.op = "nogroup", !.dst[p] = FreeSlot(p)]
  /\ UNCHANGED <<comms, mpi_error, impls, use_count, me, xvars, cvars>>

\* A copy constructor that gives the copy an Impl and a control block of its own.
CopyDeep(p, src) ==
  /\ Live(p, src)
  /\ HasSlot(p)
  /\ IF handles[p][src].impl = nullptr
       THEN /\ handles' = [handles EXCEPT ![p][FreeSlot(p)] = handles[p][src]]
            /\ UNCHANGED <<impls, use_count>>
       ELSE /\ handles' = [handles EXCEPT ![p] = WrapHandles(p, Deref(p, src), comms)]
            /\ impls' = [impls EXCEPT ![p] = WrapImpls(p, Deref(p, src), comms)]
            /\ use_count' = [use_count EXCEPT ![p] = WrapCount(p, Deref(p, src), comms)]
  /\ last' = [Idle EXCEPT !.op = "copy", !.src[p] = src, !.dst[p] = FreeSlot(p)]
  /\ UNCHANGED <<comms, mpi_error, me, xvars, cvars>>

\* The implicit copy constructor: the shared_ptr member is copied, which adds one
\* to the count of the control block it points to.
Copy(p, src) ==
  /\ Live(p, src)
  /\ HasSlot(p)
  /\ handles' = [handles EXCEPT ![p][FreeSlot(p)] = handles[p][src]]
  /\ use_count' = IF handles[p][src].impl = nullptr THEN use_count
                  ELSE [use_count EXCEPT ![p][handles[p][src].impl] = @ + 1]
  /\ last' = [Idle EXCEPT !.op = "copy", !.src[p] = src, !.dst[p] = FreeSlot(p)]
  /\ UNCHANGED <<comms, mpi_error, impls, me, xvars, cvars>>

\* A deleter that releases whatever group the Impl holds.
delete_comm_any(p, i) == {impls[p][i].comm}

\* static void delete_comm(Impl *impl), the deleter of the control block: the groups
\* it hands to MPI_Comm_free. It takes ownership of the communicator, unless it is
\* MPI_COMM_WORLD.
delete_comm(p, i) ==
  IF impls[p][i].comm # MPI_COMM_WORLD THEN {impls[p][i].comm} ELSE {}

\* The deleter runs: MPI_Comm_free on what delete_comm releases, then delete impl.
RunDeleter(p, i) ==
  /\ comms' = [c \in CommId |-> IF c \in delete_comm(p, i) THEN <<>> ELSE comms[c]]
  /\ mpi_error' = (mpi_error \/ \E c \in delete_comm(p, i) : ~Created(c))
  /\ impls' = [impls EXCEPT ![p][i] = NoImpl]

\* A destructor whose control block runs the deleter whatever its count.
DestroyUncounted(p, h) ==
  /\ Live(p, h)
  /\ handles' = [handles EXCEPT ![p][h] = NoObject]
  /\ UNCHANGED <<me, xvars, cvars>>
  /\ IF handles[p][h].impl = nullptr
       THEN /\ UNCHANGED <<comms, mpi_error, impls, use_count>>
            /\ last' = [Idle EXCEPT !.op = "destroy"]
       ELSE LET i == handles[p][h].impl IN
            /\ use_count' = [use_count EXCEPT ![p][i] = @ - 1]
            /\ RunDeleter(p, i)
            /\ last' = [Idle EXCEPT !.op = "destroy",
                                    !.comm = {impls[p][i].comm},
                                    !.freed = delete_comm(p, i)]

\* virtual ~Communicator(){}: the shared_ptr member is destroyed, which takes one
\* from the count and runs the deleter when the count reaches zero.
Destroy(p, h) ==
  /\ Live(p, h)
  /\ handles' = [handles EXCEPT ![p][h] = NoObject]
  /\ UNCHANGED <<me, xvars, cvars>>
  /\ IF handles[p][h].impl = nullptr
       THEN /\ UNCHANGED <<comms, mpi_error, impls, use_count>>
            /\ last' = [Idle EXCEPT !.op = "destroy"]
       ELSE LET i == handles[p][h].impl IN
            /\ use_count' = [use_count EXCEPT ![p][i] = @ - 1]
            /\ IF use_count[p][i] = 1
                 THEN RunDeleter(p, i)
                 ELSE UNCHANGED <<comms, mpi_error, impls>>
            /\ last' = [Idle EXCEPT !.op = "destroy",
                                    !.comm = {impls[p][i].comm},
                                    !.freed = IF use_count[p][i] = 1
                                                THEN delete_comm(p, i) ELSE {}]

\* ------------------------------------------------------ collective creation
\* A collective is called by every member of the group. Spec follows the objects
\* of one member, the others being its environment.

\* p wraps, in a new handle, the native group c of the runtime's new table cs.
Wrap(p, c, cs) ==
  /\ comms' = cs
  /\ handles' = [handles EXCEPT ![p] = WrapHandles(p, c, cs)]
  /\ impls' = [impls EXCEPT ![p] = WrapImpls(p, c, cs)]
  /\ use_count' = [use_count EXCEPT ![p] = WrapCount(p, c, cs)]
  /\ UNCHANGED <<mpi_error, me, xvars, cvars>>

\* Communicator duplicate() const: MPI_Comm_dup, and the new native group wrapped
\* in a new handle.
duplicate(p, h, name) ==
  /\ Wraps(p, h)
  /\ HasSlot(p)
  /\ Created(Deref(p, h))
  /\ CanCreate
  /\ Wrap(p, NextComm, MPI_Comm_dup(Deref(p, h)))
  /\ last' = [Idle EXCEPT !.op = name, !.src[p] = h, !.dst[p] = FreeSlot(p)]

Duplicate(p, h) == duplicate(p, h, "duplicate")

\* A clone() that hands back a copy of the handle it was called on.
CloneShallow(p, h) ==
  /\ Wraps(p, h)
  /\ HasSlot(p)
  /\ Created(Deref(p, h))
  /\ CanCreate
  /\ handles' = [handles EXCEPT ![p][FreeSlot(p)] = handles[p][h]]
  /\ use_count' = [use_count EXCEPT ![p][handles[p][h].impl] = @ + 1]
  /\ last' = [Idle EXCEPT !.op = "clone", !.src[p] = h, !.dst[p] = FreeSlot(p)]
  /\ UNCHANGED <<comms, mpi_error, impls, me, xvars, cvars>>

\* Communicator clone() const { return duplicate(); }
Clone(p, h) == duplicate(p, h, "clone")

\* The arguments the members of c can pass when p passes v: a value of V each, 0
\* for the processes outside c.
ArgsOf(c, V, p, v) ==
  {[q \in Proc |-> IF q = p THEN v ELSE IF q \in Members(comms[c]) THEN a[q] ELSE 0] :
     a \in [Members(comms[c]) \ {p} -> V]}

\* What MPI_Comm_split can leave for p, which passes colour col and key k, the
\* other members passing what they like.
SplitTables(p, c, col, k) ==
  {MPI_Comm_split({p}, c, color, key) :
     color \in ArgsOf(c, Colors, p, col), key \in ArgsOf(c, Keys, p, k)}

\* Communicator split(t_int color, t_uint rank) const: MPI_Comm_split, and the
\* caller's new native group wrapped in a new handle.
split(p, h, col, k, name) ==
  /\ Wraps(p, h)
  /\ HasSlot(p)
  /\ Created(Deref(p, h))
  /\ CanCreate
  /\ \E cs \in SplitTables(p, Deref(p, h), col, k) : Wrap(p, NextComm, cs)
  /\ last' = [Idle EXCEPT !.op = name, !.src[p] = h, !.dst[p] = FreeSlot(p)]

Split(p, h) == \E col \in Colors, k \in Keys : split(p, h, col, k, "split")

\* The key of the one-argument overload, a key that turns the order around.
ReversedKey(p, h) == size(p, h) - 1 - rank(p, h)

\* Communicator split(t_int color) const { return split(color, rank()); }
SplitOverloadKey(p, h) == rank(p, h)

SplitByColor(p, h) ==
  \E col \in Colors : split(p, h, col, SplitOverloadKey(p, h), "split")

\* ------------------------------------------------- split by every member
NoArgs == [color |-> 0, key |-> 0, overload |-> FALSE]
NoPlan == [op |-> "none", root |-> 0]
NoTopology == [c \in CommId |-> <<>>]
\* No non-blocking collective has been posted.
NoRequest == [p \in Proc |-> "none"]
\* The ranks of the handle the process grids are laid over.
GridRanks == 0 .. (MaxGrid * MaxGrid - 1)
MatrixNames == {"a", "b", "c"}
\* No matrix has been constructed.
NoMatrix == [context_ |-> [id |-> -1, rows |-> 0, cols |-> 0], blacs_ |-> <<>>,
             matrix_ |-> [rows |-> 0, cols |-> 0, coeff |-> <<>>]]
NoJob == [op |-> "none"]
\* The process is in no redistribution.
NotCalled == [at |-> "idle", un |-> [id |-> -1, rows |-> 0, cols |-> 0]]
InitNoMatrix ==
  /\ job = NoJob
  /\ matrices = [m \in MatrixNames |-> [p \in GridRanks |-> NoMatrix]]
  /\ call = [p \in GridRanks |-> NotCalled]
  /\ channel = {}
\* An empty geometry on which nothing has been called.
NoOutcome == [op |-> "none"]
InitNoGeometry == objects = <<>> /\ outcome = NoOutcome
InitExtra == request = NoRequest /\ InitNoMatrix /\ InitNoGeometry
\* The handle each process calls split on, and the group behind it.
Parent(p) == CHOOSE h \in HandleId : Live(p, h) /\ \A g \in HandleId : Live(p, g) => h <= g
ParentComm == Deref(0, Parent(0))
AllCalled(q, pcs) == \A p \in Members(comms[ParentComm]) \ {q} : pcs[p] = "in_split"

\* split(color, key) up to MPI_Comm_split, which returns once every member has
\* called it: the runtime forms the new groups when the last member arrives.
SplitEnter(p, col, k, short) ==
  /\ pc[p] = "idle"
  /\ pc' = [pc EXCEPT ![p] = "in_split"]
  /\ args' = [args EXCEPT ![p] = [color |-> col, key |-> k, overload |-> short]]
  /\ IF AllCalled(p, pc)
       THEN LET color == [q \in Proc |-> args'[q].color]
                key == [q \in Proc |-> args'[q].key]
            IN /\ comms' = MPI_Comm_split(Proc, ParentComm, color, key)
               /\ granted' = [q \in Proc |-> NewCommOf(Proc, color, color[q])]
       ELSE UNCHANGED <<comms, granted>>
  /\ UNCHANGED <<mpi_error, handles, impls, use_count, last, me, xvars, mvars>>

SplitCall(p) == \E col \in Colors, k \in Keys : SplitEnter(p, col, k, FALSE)

\* split(color): split(color, rank()).
SplitCallByColor(p) ==
  \E col \in Colors : SplitEnter(p, col, SplitOverloadKey(p, Parent(p)), TRUE)

\* MPI_Comm_split has returned in p: the new group is wrapped in a new handle.
SplitReturn(p) ==
  /\ pc[p] = "in_split"
  /\ AllCalled(p, [q \in Proc |-> IF pc[q] = "done" THEN "in_split" ELSE pc[q]])
  /\ pc' = [pc EXCEPT ![p] = "done"]
  /\ handles' = [handles EXCEPT ![p] = WrapHandles(p, granted[p], comms)]
  /\ impls' = [impls EXCEPT ![p] = WrapImpls(p, granted[p], comms)]
  /\ use_count' = [use_count EXCEPT ![p] = WrapCount(p, granted[p], comms)]
  /\ last' = [last EXCEPT !.op = "split", !.src[p] = Parent(p), !.dst[p] = FreeSlot(p)]
  /\ UNCHANGED <<comms, mpi_error, me, xvars, args, granted, mvars>>

\* Every process holds one handle over a group of all the processes, in any rank
\* order (the world group, or what an earlier split by key made of it).
InitSplit ==
  /\ me = 0
  /\ InitExtra
  /\ \E order \in {o \in [1 .. NProcs -> Proc] : \A q \in Proc : \E i \in 1 .. NProcs : o[i] = q} :
       /\ comms = [c \in CommId |-> IF c = MPI_COMM_WORLD THEN [i \in 1 .. NProcs |-> i - 1]
                                    ELSE IF c = MPI_COMM_WORLD + 1 THEN order ELSE <<>>]
       /\ impls = [p \in Proc |-> [i \in ImplId |->
                     IF i = 1 THEN [comm |-> MPI_COMM_WORLD + 1, size |-> MPI_Comm_size(order),
                                    rank |-> MPI_Comm_rank(order, p)]
                     ELSE NoImpl]]
  /\ mpi_error = FALSE
  /\ handles = [p \in Proc |-> [h \in HandleId |->
                  IF h = 1 THEN [live |-> TRUE, impl |-> 1] ELSE NoObject]]
  /\ use_count = [p \in Proc |-> [i \in ImplId |-> IF i = 1 THEN 1 ELSE 0]]
  /\ last = Idle
  /\ pc = [p \in Proc |-> "idle"]
  /\ args = [p \in Proc |-> NoArgs]
  /\ granted = NoOne
  /\ result = [p \in Proc |-> <<>>]
  /\ wire = {}
  /\ plan = NoPlan
  /\ topology = NoTopology

NextSplit ==
  \/ \E p \in Proc : SplitCall(p)
  \/ \E p \in Proc : SplitCallByColor(p)
  \/ \E p \in Proc : SplitReturn(p)

\* ------------------------------------------------- broadcast and gather
\* Every process holds one handle over the world group and calls the collective of
\* the plan on it, once.
NoCall == [form |-> "none", value |-> 0, root |-> 0]
\* The roots a call passes: the one agreed on, or one past the last rank.
RootArgs(p) == {plan.root} \cup {r \in 0 .. NProcs : r >= size(p, Parent(p))}
\* The process that holds rank rk in the group behind handle h of p.
MemberOfRank(p, h, rk) == comms[Deref(p, h)][rk + 1]

\* A check that lets the root one past the last rank through.
RootUpToSize(p, h, root) == root <= size(p, h)

\* assert(root < comm.size());
RootBelowSize(p, h, root) == root < size(p, h)

\* MPI_Bcast, entered by the member of rank rk of group c with b in its buffer:
\* the root's buffer goes out to every other rank.
MPI_Bcast_send(c, rk, b, root) ==
  IF rk = root
    THEN {[comm |-> c, src |-> rk, dst |-> d, val |-> b] :
            d \in (0 .. (MPI_Comm_size(comms[c]) - 1)) \ {rk}}
    ELSE {}

\* An MPI_Bcast that leaves the buffer of a receiving member as it was.
BufferKept(buf, m) == buf

\* MPI_Bcast at a member that is not the root: the message overwrites the buffer.
MPI_Bcast_recv(buf, m) == <<m.val>>

\* broadcast up to the return of MPI_Bcast; b is what result holds before it.
broadcast(p, b, root, form) ==
  LET h == Parent(p) IN
  /\ pc[p] = "idle"
  /\ plan.op = "broadcast"
  /\ args' = [args EXCEPT ![p] = [form |-> form, value |-> b, root |-> root]]
  /\ IF RootBelowSize(p, h, root)
       THEN /\ pc' = [pc EXCEPT ![p] = "in_bcast"]
            /\ result' = [result EXCEPT ![p] = <<b>>]
            /\ wire' = wire \cup MPI_Bcast_send(Deref(p, h), rank(p, h), b, root)
       ELSE /\ pc' = [pc EXCEPT ![p] = "faulted"]
            /\ UNCHANGED <<result, wire>>
  /\ UNCHANGED <<hvars, granted, plan, topology>>

\* broadcast(T const & value, Communicator const &comm, t_uint root): T result = value;
BroadcastValue(p) == \E v \in Vals, root \in RootArgs(p) : broadcast(p, v, root, "value")

\* broadcast(Communicator const &comm, t_uint root): T result; holds whatever was
\* in its storage.
BroadcastValueless(p) ==
  \E indeterminate \in Vals, root \in RootArgs(p) :
    broadcast(p, indeterminate, root, "valueless")

\* MPI_Bcast returns: at once in the root, with the root's message in the others.
\* return result;
BroadcastReturn(p) ==
  LET h == Parent(p) IN
  /\ pc[p] = "in_bcast"
  /\ pc' = [pc EXCEPT ![p] = "done"]
  /\ IF rank(p, h) = args[p].root
       THEN UNCHANGED <<result, wire>>
       ELSE \E m \in wire :
              /\ m.comm = Deref(p, h) /\ m.src = args[p].root /\ m.dst = rank(p, h)
              /\ result' = [result EXCEPT ![p] = MPI_Bcast_recv(result[p], m)]
              /\ wire' = wire \ {m}
  /\ UNCHANGED <<hvars, args, granted, plan, topology>>

\* gather up to the return of MPI_Gather: the result vector is allocated, and the
\* member's value leaves for the root.
GatherCall(p) ==
  \E v \in Vals, root \in RootArgs(p) :
    LET h == Parent(p) IN
    /\ pc[p] = "idle"
    /\ plan.op = "gather"
    /\ args' = [args EXCEPT ![p] = [form |-> "value", value |-> v, root |-> root]]
    /\ IF RootBelowSize(p, h, root)
         THEN /\ pc' = [pc EXCEPT ![p] = "in_gather"]
              /\ result' = [result EXCEPT ![p] =
                              [i \in 1 .. (IF root = rank(p, h) THEN size(p, h) ELSE 1) |-> 0]]
              /\ wire' = wire \cup {[comm |-> Deref(p, h), src |-> rank(p, h),
                                     dst |-> root, val |-> v]}
         ELSE /\ pc' = [pc EXCEPT ![p] = "faulted"]
              /\ UNCHANGED <<result, wire>>
    /\ UNCHANGED <<hvars, granted, plan, topology>>

\* What the root of group c has been sent.
Gathered(c, root) == {m \in wire : m.comm = c /\ m.dst = root}
\* MPI_Gather at the root: the receive buffer holds the value of rank i at index i.
MPI_Gather_recv(c, root, n) ==
  [i \in 1 .. n |-> (CHOOSE m \in Gathered(c, root) : m.src = i - 1).val]

\* A gather that hands every member its vector as MPI_Gather left it.
NeverCleared(p, h, root, buf) == buf

\* if(comm.rank() != root) result.clear(); return result;
gather_result(p, h, root, buf) == IF rank(p, h) # root THEN <<>> ELSE buf

\* MPI_Gather returns: in the root once every member has sent, in the others at once.
GatherReturn(p) ==
  LET h == Parent(p)
      c == Deref(p, h)
      root == args[p].root
  IN /\ pc[p] = "in_gather"
     /\ pc' = [pc EXCEPT ![p] = "done"]
     /\ IF rank(p, h) = root
          THEN /\ \A rk \in 0 .. (size(p, h) - 1) : \E m \in Gathered(c, root) : m.src = rk
               /\ result' = [result EXCEPT ![p] =
                               gather_result(p, h, root, MPI_Gather_recv(c, root, size(p, h)))]
               /\ wire' = wire \ Gathered(c, root)
          ELSE /\ result' = [result EXCEPT ![p] = gather_result(p, h, root, result[p])]
               /\ UNCHANGED wire
     /\ UNCHANGED <<hvars, args, granted, plan, topology>>

\* mpi::Communicator const world; in every process, and the collective and root
\* the program is about to call.
InitWorld ==
  /\ me = 0
  /\ InitExtra
  /\ comms = [c \in CommId |-> IF c = MPI_COMM_WORLD
                                 THEN [i \in 1 .. NProcs |-> i - 1] ELSE <<>>]
  /\ mpi_error = FALSE
  /\ handles = [p \in Proc |-> [h \in HandleId |->
                  IF h = 1 THEN [live |-> TRUE, impl |-> 1] ELSE NoObject]]
  /\ impls = [p \in Proc |-> [i \in ImplId |->
                IF i = 1 THEN [comm |-> MPI_COMM_WORLD,
                               size |-> MPI_Comm_size(comms[MPI_COMM_WORLD]),
                               rank |-> MPI_Comm_rank(comms[MPI_COMM_WORLD], p)]
                ELSE NoImpl]]
  /\ use_count = [p \in Proc |-> [i \in ImplId |-> IF i = 1 THEN 1 ELSE 0]]
  /\ last = Idle
  /\ pc = [p \in Proc |-> "idle"]
  /\ granted = NoOne
  /\ result = [p \in Proc |-> <<>>]
  /\ wire = {}
  /\ topology = NoTopology

InitColl ==
  /\ InitWorld
  /\ args = [p \in Proc |-> NoCall]
  /\ plan \in [op : {"broadcast", "gather"}, root : Proc]

NextColl ==
  \/ \E p \in Proc : BroadcastValue(p)
  \/ \E p \in Proc : BroadcastValueless(p)
  \/ \E p \in Proc : BroadcastReturn(p)
  \/ \E p \in Proc : GatherCall(p)
  \/ \E p \in Proc : GatherReturn(p)

\* ------------------------------------------- neighbour-topology collectives
\* Every process holds one handle over the world group, builds the graph group
\* from its rows of the program's tables and calls allgather on it, once.
Range(s) == {s[i] : i \in 1 .. Len(s)}
\* The lists that name every process of S once.
Orders(S) == {l \in [1 .. Cardinality(S) -> S] :
                \A i, j \in 1 .. Cardinality(S) : l[i] = l[j] => i = j}
NeighbourLists == UNION {Orders(S) : S \in SUBSET Proc}
\* A source list for every process, no process naming itself.
SourceTables == {s \in [Proc -> NeighbourLists] : \A p \in Proc : p \notin Range(s[p])}
\* The destination tables that agree with source table s: p lists q as a
\* destination exactly if q lists p as a source, in any order.
RECURSIVE DestinationTables(_, _)
DestinationTables(P, s) ==
  IF P = {} THEN {<<>>}
  ELSE LET p == CHOOSE x \in P : TRUE
       IN {(p :> l) @@ d : l \in Orders({q \in Proc : p \in Range(s[q])}),
                           d \in DestinationTables(P \ {p}, s)}
GraphPlans ==
  UNION {{[op |-> "allgather", sources |-> s, destinations |-> d] :
            d \in DestinationTables(Proc, s)} : s \in SourceTables}

NoNeighbours == [sources |-> <<>>, destinations |-> <<>>, value |-> 0]
InGraph(q, pcs) == \A p \in Members(comms[ParentComm]) \ {q} : pcs[p] # "idle"

\* MPI_Dist_graph_create_adjacent without reordering: a new group with the members
\* of c in the same order, and the adjacency each rank passed.
MPI_Dist_graph_create_adjacent(c, adj) ==
  [rk \in 0 .. (MPI_Comm_size(comms[c]) - 1) |->
     [sources |-> adj[comms[c][rk + 1]].sources,
      destinations |-> adj[comms[c][rk + 1]].destinations]]

\* A program in which only the processes that have a neighbour build the graph.
GraphEnterIfNeighbours(p) ==
  /\ plan.sources[p] # <<>> \/ plan.destinations[p] # <<>>
  /\ pc[p] = "idle"
  /\ plan.op = "allgather"
  /\ pc' = [pc EXCEPT ![p] = "in_graph"]
  /\ args' = [args EXCEPT ![p] = [sources |-> plan.sources[p],
                                  destinations |-> plan.destinations[p], value |-> 0]]
  /\ IF InGraph(p, pc)
       THEN /\ comms' = MPI_Comm_dup(ParentComm)
            /\ topology' = [topology EXCEPT ![NextComm] =
                              MPI_Dist_graph_create_adjacent(ParentComm, args')]
            /\ granted' = [q \in Proc |-> NextComm]
       ELSE UNCHANGED <<comms, topology, granted>>
  /\ UNCHANGED <<mpi_error, handles, impls, use_count, last, me, xvars, result, wire, plan>>

\* DistGraphCommunicator(world, sources, destinations, false) up to the creation
\* of the topology, which is done once every member of the base handle has called.
GraphEnter(p) ==
  /\ pc[p] = "idle"
  /\ plan.op = "allgather"
  /\ pc' = [pc EXCEPT ![p] = "in_graph"]
  /\ args' = [args EXCEPT ![p] = [sources |-> plan.sources[p],
                                  destinations |-> plan.destinations[p], value |-> 0]]
  /\ IF InGraph(p, pc)
       THEN /\ comms' = MPI_Comm_dup(ParentComm)
            /\ topology' = [topology EXCEPT ![NextComm] =
                              MPI_Dist_graph_create_adjacent(ParentComm, args')]
            /\ granted' = [q \in Proc |-> NextComm]
       ELSE UNCHANGED <<comms, topology, granted>>
  /\ UNCHANGED <<mpi_error, handles, impls, use_count, last, me, xvars, result, wire, plan>>

\* The topology is there: the new group is wrapped in the handle of the graph.
GraphReturn(p) ==
  /\ pc[p] = "in_graph"
  /\ InGraph(p, pc)
  /\ pc' = [pc EXCEPT ![p] = "built"]
  /\ handles' = [handles EXCEPT ![p] = WrapHandles(p, granted[p], comms)]
  /\ impls' = [impls EXCEPT ![p] = WrapImpls(p, granted[p], comms)]
  /\ use_count' = [use_count EXCEPT ![p] = WrapCount(p, granted[p], comms)]
  /\ last' = [last EXCEPT !.op = "graph", !.src[p] = Parent(p), !.dst[p] = FreeSlot(p)]
  /\ UNCHANGED <<comms, mpi_error, me, xvars, args, granted, mvars>>

\* The adjacency the runtime holds for the caller of handle g.
Neighbours(p, g) == topology[Deref(p, g)][rank(p, g)]
\* nedges(): in-degree, out-degree and whether the graph is weighted.
nedges(p, g) ==
  <<Len(Neighbours(p, g).sources), Len(Neighbours(p, g).destinations), FALSE>>

\* allgather(value) up to the return of MPI_Neighbor_allgather: the value leaves
\* for every destination.
AllgatherCall(p) ==
  \E v \in Vals :
    LET g == last.dst[p] IN
    /\ pc[p] = "built"
    /\ pc' = [pc EXCEPT ![p] = "in_allgather"]
    /\ args' = [args EXCEPT ![p].value = v]
    /\ wire' = wire \cup {[comm |-> Deref(p, g), src |-> rank(p, g), dst |-> d, val |-> v] :
                            d \in Range(Neighbours(p, g).destinations)}
    /\ UNCHANGED <<hvars, granted, result, plan, topology>>

\* What the member of rank rk of group c has been sent.
Arrived(c, rk) == {m \in wire : m.comm = c /\ m.dst = rk}

\* A receive buffer filled from the last source to the first.
ReverseSourceOrder(c, rk, srcs) ==
  [i \in 1 .. Len(srcs) |->
     (CHOOSE m \in Arrived(c, rk) : m.src = srcs[Len(srcs) + 1 - i]).val]

\* MPI_Neighbor_allgather: the receive buffer holds at index i the value of the
\* i-th source of the adjacency.
MPI_Neighbor_allgather_recv(c, rk, srcs) ==
  [i \in 1 .. Len(srcs) |-> (CHOOSE m \in Arrived(c, rk) : m.src = srcs[i]).val]

\* MPI_Neighbor_allgather returns once every source has sent. The result is a
\* vector of in-degree elements.
AllgatherReturn(p) ==
  LET g == last.dst[p]
      c == Deref(p, g)
      srcs == Neighbours(p, g).sources
  IN /\ pc[p] = "in_allgather"
     /\ \A s \in Range(srcs) : \E m \in Arrived(c, rank(p, g)) : m.src = s
     /\ pc' = [pc EXCEPT ![p] = "done"]
     /\ result' = [result EXCEPT ![p] = MPI_Neighbor_allgather_recv(c, rank(p, g), srcs)]
     /\ wire' = wire \ Arrived(c, rank(p, g))
     /\ UNCHANGED <<hvars, args, granted, plan, topology>>

InitGraph ==
  /\ InitWorld
  /\ args = [p \in Proc |-> NoNeighbours]
  /\ plan \in GraphPlans

NextGraph ==
  \/ \E p \in Proc : GraphEnter(p)
  \/ \E p \in Proc : GraphReturn(p)
  \/ \E p \in Proc : AllgatherCall(p)
  \/ \E p \in Proc : AllgatherReturn(p)

\* ----------------------------------- neighbour collectives of vectors
\* Every process builds the graph group and calls allgatherv, or posts iallgatherv
\* and waits for the request, with a vector of the length the program's table
\* gives it; receive_counts holds the lengths of the vectors of its sources.
VectorPlans ==
  {[op |-> "allgather", sources |-> g.sources, destinations |-> g.destinations,
    len |-> l, form |-> f] :
     g \in GraphPlans, l \in [Proc -> 0 .. MaxLen], f \in {"allgatherv", "iallgatherv"}}

\* Vector<int> input: an entry names the process and the place it comes from.
Input(p) == [k \in 1 .. plan.len[p] |-> MaxVal + p * MaxLen + k]
\* receive_count: the length of the vector of each source, in source-list order.
ReceiveCounts(p) == [i \in 1 .. Len(plan.sources[p]) |-> plan.len[plan.sources[p][i]]]

RECURSIVE Sum(_)
Sum(s) == IF s = <<>> THEN 0 ELSE Head(s) + Sum(Tail(s))

\* Displacements that take every chunk to be as long as the one placed.
UniformDisplacement(counts, i) == (i - 1) * counts[i]

\* The place of the chunk of source i in the receive buffer: after the chunks of
\* the sources before it.
Displacement(counts, i) == Sum(SubSeq(counts, 1, i - 1))

\* The receive buffer with n entries of chunk written from displacement d on.
Place(buf, d, chunk, n) ==
  [k \in 1 .. Len(buf) |-> IF d < k /\ k <= d + n THEN chunk[k - d] ELSE buf[k]]

\* The receive buffer of rank rk once the chunks of sources i .. Len(srcs) are in.
RECURSIVE PlaceFrom(_, _, _, _, _, _)
PlaceFrom(buf, c, rk, srcs, counts, i) ==
  IF i > Len(srcs) THEN buf
  ELSE PlaceFrom(Place(buf, Displacement(counts, i),
                       (CHOOSE m \in Arrived(c, rk) : m.src = srcs[i]).val, counts[i]),
                 c, rk, srcs, counts, i + 1)

\* The vector leaves for every destination (MPI_Neighbor_allgatherv and
\* MPI_Ineighbor_allgatherv alike).
SendVector(p, g, input) ==
  wire' = wire \cup {[comm |-> Deref(p, g), src |-> rank(p, g), dst |-> d, val |-> input] :
                       d \in Range(Neighbours(p, g).destinations)}

\* allgatherv(input, receive_counts) up to the return of MPI_Neighbor_allgatherv.
AllgathervCall(p) ==
  LET g == last.dst[p] IN
  /\ pc[p] = "built"
  /\ plan.form = "allgatherv"
  /\ pc' = [pc EXCEPT ![p] = "in_allgatherv"]
  /\ args' = [args EXCEPT ![p] = [sources |-> args[p].sources,
                                  destinations |-> args[p].destinations, value |-> 0,
                                  input |-> Input(p), counts |-> ReceiveCounts(p),
                                  pending |-> {}]]
  /\ SendVector(p, g, Input(p))
  /\ UNCHANGED <<hvars, granted, result, plan, topology>>

\* MPI_Neighbor_allgatherv returns once every source has sent: the result holds
\* the chunks one after the other.
AllgathervReturn(p) ==
  LET g == last.dst[p]
      c == Deref(p, g)
      srcs == Neighbours(p, g).sources
  IN /\ pc[p] = "in_allgatherv"
     /\ \A s \in Range(srcs) : \E m \in Arrived(c, rank(p, g)) : m.src = s
     /\ pc' = [pc EXCEPT ![p] = "done"]
     /\ result' = [result EXCEPT ![p] =
                     PlaceFrom([k \in 1 .. Sum(args[p].counts) |-> 0], c, rank(p, g),
                               srcs, args[p].counts, 1)]
     /\ wire' = wire \ Arrived(c, rank(p, g))
     /\ UNCHANGED <<hvars, args, granted, plan, topology>>

\* iallgatherv(input, result, receive_counts): result is resized to the sum of the
\* counts, its entries holding whatever the new storage holds, the transfer is
\* posted and the request handed back.
IallgathervPost(p) ==
  \E indeterminate \in Vals :
    LET g == last.dst[p] IN
    /\ pc[p] = "built"
    /\ plan.form = "iallgatherv"
    /\ pc' = [pc EXCEPT ![p] = "posted"]
    /\ args' = [args EXCEPT ![p] = [sources |-> args[p].sources,
                                    destinations |-> args[p].destinations, value |-> 0,
                                    input |-> Input(p), counts |-> ReceiveCounts(p),
                                    pending |-> 1 .. Len(args[p].sources)]]
    /\ result' = [result EXCEPT ![p] = [k \in 1 .. Sum(ReceiveCounts(p)) |-> indeterminate]]
    /\ request' = [request EXCEPT ![p] = "active"]
    /\ SendVector(p, g, Input(p))
    /\ UNCHANGED <<comms, mpi_error, handles, impls, use_count, last, me, granted, plan,
                   topology, dvars>>

\* The runtime moves the chunk of one source into the result while the request
\* is pending.
TransferChunk(p) ==
  /\ pc[p] = "posted"
  /\ \E i \in args[p].pending :
       LET g == last.dst[p]
           c == Deref(p, g)
       IN /\ \E m \in Arrived(c, rank(p, g)) :
               /\ m.src = args[p].sources[i]
               /\ result' = [result EXCEPT ![p] =
                               Place(result[p], Displacement(args[p].counts, i), m.val,
                                     args[p].counts[i])]
               /\ wire' = wire \ {m}
          /\ args' = [args EXCEPT ![p].pending = @ \ {i}]
  /\ UNCHANGED <<hvars, pc, granted, plan, topology>>

\* A request that is given up without the transfer having been waited for.
RequestDropped(p) == TRUE

\* The transfer behind the request of p is complete.
TransferComplete(p) == args[p].pending = {}

\* The request is waited for, by the caller or by its destructor: the wait returns
\* once the transfer is complete and leaves the request inactive.
RequestWait(p) ==
  /\ pc[p] = "posted"
  /\ request[p] = "active"
  /\ TransferComplete(p)
  /\ request' = [request EXCEPT ![p] = "inactive"]
  /\ pc' = [pc EXCEPT ![p] = "done"]
  /\ UNCHANGED <<comms, mpi_error, handles, impls, use_count, last, me, args, granted,
                 mvars, dvars>>

InitVector ==
  /\ InitWorld
  /\ args = [p \in Proc |-> NoNeighbours]
  /\ plan \in VectorPlans

NextVector ==
  \/ \E p \in Proc : GraphEnter(p)
  \/ \E p \in Proc : GraphReturn(p)
  \/ \E p \in Proc : AllgathervCall(p)
  \/ \E p \in Proc : AllgathervReturn(p)
  \/ \E p \in Proc : IallgathervPost(p)
  \/ \E p \in Proc : TransferChunk(p)
  \/ \E p \in Proc : RequestWait(p)

\* ---------------------------------------------------- scalapack::Matrix
\* The largest int; the arguments of the constructor the model draws lie below it.
INT_MAX == 2147483647
\* static_cast<int> of a t_uint below 2^32.
static_cast_int(u) == IF u <= INT_MAX THEN u ELSE ((u - INT_MAX) - INT_MAX) - 2
\* static_cast<t_uint> of an int, t_uint having at least the width of int.
static_cast_t_uint(i) == IF i >= 0 THEN i ELSE ((i + INT_MAX) + INT_MAX) + 2

\* A process grid of rows x cols processes laid row by row over the first ranks
\* of the handle; id is the identifier the grid library knows it by.
Contexts(id) == {[id |-> id, rows |-> r, cols |-> c] : r \in 1 .. MaxGrid, c \in 1 .. MaxGrid}
\* Context::size
ContextSize(context) == context.rows * context.cols
\* Context::is_valid, on process p
is_valid(context, p) == p < ContextSize(context)
\* Context::row and Context::col, on process p
ContextRow(context, p) == p \div context.cols
ContextCol(context, p) == p % context.cols

\* Number of the n rows (or columns), cut into blocks of nb, that fall to process
\* iproc of nprocs when the first block is on process isrcproc.
numroc(n, nb, iproc, isrcproc, nprocs) ==
  LET mydist == (nprocs + iproc - isrcproc) % nprocs
      nblocks == n \div nb
      base == (nblocks \div nprocs) * nb
      extrablks == nblocks % nprocs
  IN  IF mydist < extrablks THEN base + nb
      ELSE IF mydist = extrablks THEN base + (n % nb)
      ELSE base
\* The global index of local index l on process iproc.
indxl2g(l, nb, iproc, isrcproc, nprocs) ==
  ((l \div nb) * nprocs + ((nprocs + iproc - isrcproc) % nprocs)) * nb + (l % nb)

\* static Matrix::rows and Matrix::cols: the extents of the local block of p.
LocalRows(context, gsize, blocks, index, p) ==
  IF is_valid(context, p)
    THEN numroc(gsize.rows, blocks.rows, ContextRow(context, p), index.row, context.rows)
    ELSE 0
LocalCols(context, gsize, blocks, index, p) ==
  IF is_valid(context, p)
    THEN numroc(gsize.cols, blocks.cols, ContextCol(context, p), index.col, context.cols)
    ELSE 0

\* EigenMatrix::Zero(r, c)
Zero(r, c) ==
  [rows |-> r, cols |-> c, coeff |-> [ij \in (0 .. r - 1) \X (0 .. c - 1) |-> 0]]

\* A constructor that passes the two extents of the local block in the wrong order.
MatrixTransposed(context, gsize, blocks, index, p) ==
  LET local == Zero(LocalCols(context, gsize, blocks, index, p),
                    LocalRows(context, gsize, blocks, index, p))
  IN  [context_ |-> context,
       blacs_ |-> <<1, IF is_valid(context, p) THEN context.id ELSE -1,
                    static_cast_int(gsize.rows), static_cast_int(gsize.cols),
                    static_cast_int(blocks.rows), static_cast_int(blocks.cols),
                    static_cast_int(index.row), static_cast_int(index.col),
                    IF job.IsRowMajor THEN local.rows ELSE local.cols>>,
       matrix_ |-> local]

\* Matrix::Matrix(context, size, blocks, index), on process p. Entry k of the C++
\* array blacs_ is blacs_[k + 1] here.
Matrix(context, gsize, blocks, index, p) ==
  LET local == Zero(LocalRows(context, gsize, blocks, index, p),
                    LocalCols(context, gsize, blocks, index, p))
  IN  [context_ |-> context,
       blacs_ |-> <<1, IF is_valid(context, p) THEN context.id ELSE -1,
                    static_cast_int(gsize.rows), static_cast_int(gsize.cols),
                    static_cast_int(blocks.rows), static_cast_int(blocks.cols),
                    static_cast_int(index.row), static_cast_int(index.col),
                    IF job.IsRowMajor THEN local.rows ELSE local.cols>>,
       matrix_ |-> local]

eigen(m) == m.matrix_
context(m) == m.context_
blacs(m) == m.blacs_
index(m) == [row |-> static_cast_t_uint(blacs(m)[7]), col |-> static_cast_t_uint(blacs(m)[8])]
blocks(m) == [rows |-> static_cast_t_uint(blacs(m)[5]), cols |-> static_cast_t_uint(blacs(m)[6])]
sizes(m) == [rows |-> static_cast_t_uint(blacs(m)[3]), cols |-> static_cast_t_uint(blacs(m)[4])]
rows(m) == static_cast_t_uint(blacs(m)[3])
\* An accessor that reads the entry next to its own.
colsFromRows(m) == static_cast_t_uint(blacs(m)[3])
cols(m) == static_cast_t_uint(blacs(m)[4])
\* Matrix::size
Matrix_size(m) == rows(m) * cols(m)
local_leading(m) == IF job.IsRowMajor THEN eigen(m).rows ELSE eigen(m).cols

\* The layouts a matrix can be given on the grid the library knows as id.
Layouts(id) ==
  {[context |-> c, blocks |-> [rows |-> br, cols |-> bc], index |-> [row |-> ir, col |-> ic]] :
     c \in Contexts(id), br \in 1 .. MaxBlock, bc \in 1 .. MaxBlock,
     ir \in 0 .. MaxGrid - 1, ic \in 0 .. MaxGrid - 1}
LayoutsOf(id) == {l \in Layouts(id) : l.index.row < l.context.rows /\ l.index.col < l.context.cols}
GlobalSizes == {[rows |-> r, cols |-> c] : r \in 0 .. MaxSize, c \in 0 .. MaxSize}
Constructed(name, p) == matrices[name][p] # NoMatrix

\* The global row and column of the local element (i, j) of matrix m on process p.
GlobalRow(m, p, i) ==
  indxl2g(i, blocks(m).rows, ContextRow(context(m), p), index(m).row, context(m).rows)
GlobalCol(m, p, j) ==
  indxl2g(j, blocks(m).cols, ContextCol(context(m), p), index(m).col, context(m).cols)
\* The value the program gives the global element (i, j).
Element(i, j) == 1 + i * job.size.cols + j

\* The block-cyclic rule: the rows and the columns of the global matrix whose block
\* (i, j) has (i + Ra) mod Pr = r and (j + Ca) mod Pc = c for the process at (r, c).
OwnedRows(l, p) ==
  {g \in 0 .. job.size.rows - 1 :
     ((g \div l.blocks.rows) + l.index.row) % l.context.rows = ContextRow(l.context, p)}
OwnedCols(l, p) ==
  {g \in 0 .. job.size.cols - 1 :
     ((g \div l.blocks.cols) + l.index.col) % l.context.cols = ContextCol(l.context, p)}
GridOf(l) == {p \in GridRanks : is_valid(l.context, p)}
\* Matrix a(context, size, blocks, index) on process p.
Construct(p) ==
  /\ job.op = "construct"
  /\ ~Constructed("a", p)
  /\ matrices' = [matrices EXCEPT !["a"][p] =
                    Matrix(job.a.context, job.size, job.a.blocks, job.a.index, p)]
  /\ UNCHANGED <<comms, mpi_error, handles, impls, use_count, last, me, request, job, call,
                 channel, gvars, cvars>>

\* The program writes the elements of the local block through eigen().
Fill(p) ==
  LET m == matrices["a"][p]
      filled == [ij \in DOMAIN eigen(m).coeff |->
                   Element(GlobalRow(m, p, ij[1]), GlobalCol(m, p, ij[2]))]
  IN  /\ job.op = "construct"
      /\ Constructed("a", p)
      /\ eigen(m).coeff # filled
      /\ matrices' = [matrices EXCEPT !["a"][p].matrix_.coeff = filled]
      /\ UNCHANGED <<comms, mpi_error, handles, impls, use_count, last, me, request, job,
                     call, channel, gvars, cvars>>

\* No process has called anything of the communicator layer.
InitNoMpi ==
  /\ me = 0
  /\ request = NoRequest
  /\ comms = [c \in CommId |-> IF c = MPI_COMM_WORLD
                                 THEN [i \in 1 .. NProcs |-> i - 1] ELSE <<>>]
  /\ mpi_error = FALSE
  /\ handles = [p \in Proc |-> [h \in HandleId |-> NoObject]]
  /\ impls = [p \in Proc |-> [i \in ImplId |-> NoImpl]]
  /\ use_count = [p \in Proc |-> [i \in ImplId |-> 0]]
  /\ last = Idle
  /\ pc = [p \in Proc |-> "idle"]
  /\ args = [p \in Proc |-> NoArgs]
  /\ granted = NoOne
  /\ result = [p \in Proc |-> <<>>]
  /\ wire = {}
  /\ plan = NoPlan
  /\ topology = NoTopology

InitMatrix ==
  /\ InitNoMpi
  /\ InitNoGeometry
  /\ job \in {[op |-> "construct", IsRowMajor |-> rm, size |-> sz, a |-> la] :
                rm \in BOOLEAN, sz \in GlobalSizes, la \in LayoutsOf(0)}
  /\ matrices = [m \in MatrixNames |-> [p \in GridRanks |-> NoMatrix]]
  /\ call = [p \in GridRanks |-> NotCalled]
  /\ channel = {}

NextMatrix ==
  \/ \E p \in GridRanks : Construct(p)
  \/ \E p \in GridRanks : Fill(p)

\* ----------------------------------------------------- Matrix::transfer_to
\* The choice of transfer_to(Context const &other, blocks, index) with the comparison turned round.
StagingSmaller(self, other) ==
  IF ContextSize(context(self)) < ContextSize(other) THEN context(self) ELSE other
\* transfer_to(Context const &other, blocks, index): the context handed on as un.
StagingForContext(self, other) ==
  IF ContextSize(context(self)) > ContextSize(other) THEN context(self) ELSE other
\* transfer_to(Matrix &other): the context handed on as un.
StagingForMatrix(self, other) ==
  IF ContextSize(context(self)) > Matrix_size(other) THEN context(self) ELSE context(other)

\* The elements of the global matrix process p owns under layout l.
Owned(l, p) == IF is_valid(l.context, p) THEN OwnedRows(l, p) \X OwnedCols(l, p) ELSE {}
\* The local index of global index g.
indxg2l(g, nb, nprocs) == (g \div (nb * nprocs)) * nb + (g % nb)
\* The element (i, j) of the global matrix, read in the local block of its owner p.
ValueAt(m, p, e) ==
  eigen(m).coeff[<<indxg2l(e[1], blocks(m).rows, context(m).rows),
                   indxg2l(e[2], blocks(m).cols, context(m).cols)>>]
\* The elements that go from process q to process p.
Piece(ls, lt, q, p) == Owned(ls, q) \cap Owned(lt, p)

\* The program moves a to b and b to c, c having the layout of a.
Source(k) == IF k = 1 THEN "a" ELSE "b"
Target(k) == IF k = 1 THEN "b" ELSE "c"
SourceLayout(k) == IF k = 1 THEN job.a ELSE job.b
TargetLayout(k) == IF k = 1 THEN job.b ELSE job.a
AtEntry(k) == IF k = 1 THEN "idle" ELSE "first_done"
During(k) == IF k = 1 THEN "in_first" ELSE "in_second"
After(k) == IF k = 1 THEN "first_done" ELSE "done"

\* Process p calls transfer_to on its source matrix: the staging context is chosen,
\* the target is constructed (by the overload that returns it), and the process
\* sends every other process of the staging context the elements that process owns
\* in the target layout. A process outside the staging context has no one to
\* exchange with and returns.
TransferEnter(p, k) ==
  LET src == matrices[Source(k)][p]
      un == IF job.form = "matrix"
              THEN StagingForMatrix(src, matrices[Target(k)][p])
              ELSE StagingForContext(src, TargetLayout(k).context)
      tgt == IF job.form = "matrix"
               THEN matrices[Target(k)][p]
               ELSE Matrix(TargetLayout(k).context, sizes(src), TargetLayout(k).blocks,
                           TargetLayout(k).index, p)
  IN  /\ job.op = "transfer"
      /\ call[p].at = AtEntry(k)
      /\ matrices' = [matrices EXCEPT ![Target(k)][p] = tgt]
      /\ IF is_valid(un, p)
           THEN /\ call' = [call EXCEPT ![p] = [at |-> During(k), un |-> un]]
                /\ channel' = channel \cup
                     {[xfer |-> k, src |-> p, dst |-> q,
                       data |-> [e \in Piece(SourceLayout(k), TargetLayout(k), p, q) |-> ValueAt(src, p, e)]] :
                        q \in {r \in GridRanks : /\ is_valid(un, r)
                                                 /\ Piece(SourceLayout(k), TargetLayout(k), p, r) # {}}}
           ELSE /\ call' = [call EXCEPT ![p] = [at |-> After(k), un |-> un]]
                /\ UNCHANGED channel
      /\ UNCHANGED <<comms, mpi_error, handles, impls, use_count, last, me, request, job, gvars,
                     cvars>>

\* The processes that own, in the source layout, an element p owns in the target
\* layout of transfer k, and the pieces that have arrived for p.
Due(p, k) ==
  {q \in GridRanks : Piece(SourceLayout(k), TargetLayout(k), q, p) # {}}
Delivered(p, k) == {m \in channel : m.xfer = k /\ m.dst = p}

\* The call of p returns once the piece of every owner of an element p owns in the
\* target layout has arrived; the pieces are written into the local block.
TransferReturn(p, k) ==
  LET tgt == matrices[Target(k)][p]
      got == Delivered(p, k)
      value(e) == (CHOOSE m \in got : e \in DOMAIN m.data).data[e]
  IN  /\ job.op = "transfer"
      /\ call[p].at = During(k)
      /\ \A q \in Due(p, k) : \E m \in got : m.src = q
      /\ matrices' = [matrices EXCEPT ![Target(k)][p].matrix_.coeff =
                        [ij \in DOMAIN eigen(tgt).coeff |->
                           value(<<GlobalRow(tgt, p, ij[1]), GlobalCol(tgt, p, ij[2])>>)]]
      /\ channel' = channel \ got
      /\ call' = [call EXCEPT ![p].at = After(k)]
      /\ UNCHANGED <<comms, mpi_error, handles, impls, use_count, last, me, request, job, gvars,
                     cvars>>

\* Matrix a as the program has constructed and written it on process p.
Written(l, p) ==
  LET m == Matrix(l.context, job.size, l.blocks, l.index, p)
  IN  [m EXCEPT !.matrix_.coeff =
         [ij \in DOMAIN eigen(m).coeff |-> Element(GlobalRow(m, p, ij[1]), GlobalCol(m, p, ij[2]))]]

\* The redistributions the program asks for: a matrix in layout a goes to layout b
\* and back, by the overload that is given the target context (form "context") or
\* by the one that is given the target matrix (form "matrix").
\* The blocks of the matrices that are redistributed are square.
SquareBlocks(id) == {l \in LayoutsOf(id) : l.blocks.rows = l.blocks.cols}
\* They have the largest number of rows, and the largest number of columns or one
\* column less.
TransferSizes == {sz \in GlobalSizes : sz.rows = MaxSize /\ sz.cols >= MaxSize - 1}
TransferJobs(forms) ==
  {[op |-> "transfer", IsRowMajor |-> FALSE, size |-> sz, a |-> la, b |-> lb, form |-> f] :
     sz \in TransferSizes, la \in SquareBlocks(0), lb \in SquareBlocks(1), f \in forms}

\* Every process has constructed and written a; the targets of transfer_to(Matrix &)
\* are constructed as well.
InitTransferOf(jobs) ==
  /\ InitNoMpi
  /\ InitNoGeometry
  /\ job \in jobs
  /\ matrices = [name \in MatrixNames |-> [p \in GridRanks |->
                   IF name = "a" THEN Written(job.a, p)
                   ELSE IF job.form = "context" THEN NoMatrix
                   ELSE IF name = "b" THEN Matrix(job.b.context, job.size, job.b.blocks, job.b.index, p)
                   ELSE Matrix(job.a.context, job.size, job.a.blocks, job.a.index, p)]]
  /\ call = [p \in GridRanks |-> NotCalled]
  /\ channel = {}
InitTransfer == InitTransferOf(TransferJobs({"context"}))
\* The redistributions that are followed to their end: those of the matrices with
\* one column less than rows.
InitTransferLive ==
  InitTransferOf({j \in TransferJobs({"context"}) : j.size.cols = MaxSize - 1})

\* The redistributions in which the choice of the staging context is followed: by
\* either overload, matrices of every size, in blocks of one element anchored at the
\* origin of the grid.
StagingJobs ==
  {[op |-> "transfer", IsRowMajor |-> FALSE, size |-> sz, a |-> la, b |-> lb, form |-> f] :
     sz \in GlobalSizes, f \in {"context", "matrix"},
     la \in {l \in LayoutsOf(0) : l.blocks = [rows |-> 1, cols |-> 1] /\ l.index = [row |-> 0, col |-> 0]},
     lb \in {l \in LayoutsOf(1) : l.blocks = [rows |-> 1, cols |-> 1] /\ l.index = [row |-> 0, col |-> 0]}}
InitStaging == InitTransferOf(StagingJobs)

NextTransfer ==
  \/ \E p \in GridRanks, k \in 1 .. 2 : TransferEnter(p, k)
  \/ \E p \in GridRanks, k \in 1 .. 2 : TransferReturn(p, k)

\* ------------------------------------------------------------- Geometry
\* The scatterers the program pushes: spheres with their centres on a lattice.
Scatterers ==
  {[vR |-> <<x, y>>, radius |-> r] : x \in 0 .. MaxCoord, y \in 0 .. MaxCoord, r \in 1 .. MaxRadius}
\* The square of Tools::findDistance(a, b).
DistanceSquared(a, b) == (a[1] - b[1]) * (a[1] - b[1]) + (a[2] - b[2]) * (a[2] - b[2])
\* A test that lets two spheres touch.
OverlapsStrictly(obj, object_) ==
  DistanceSquared(obj.vR, object_.vR)
    < (object_.radius + obj.radius) * (object_.radius + obj.radius)
\* Tools::findDistance(obj.vR, object_.vR) <= (object_.radius + obj.radius), the
\* radii not being negative.
Overlaps(obj, object_) ==
  DistanceSquared(obj.vR, object_.vR)
    <= (object_.radius + obj.radius) * (object_.radius + obj.radius)

\* Geometry::pushObject
pushObject(object_) ==
  /\ Len(objects) < MaxObjects
  /\ IF \E k \in 1 .. Len(objects) : Overlaps(objects[k], object_)
       THEN /\ outcome' = [op |-> "pushObject", object_ |-> object_, threw |-> TRUE]
            /\ UNCHANGED objects
       ELSE /\ objects' = Append(objects, object_)
            /\ outcome' = [op |-> "pushObject", object_ |-> object_, threw |-> FALSE]
  /\ UNCHANGED <<comms, mpi_error, handles, impls, use_count, last, me, request, job, matrices,
                 call, channel, cvars>>

\* Geometry::no_overlap
no_overlap(object_) ==
  /\ outcome' = [op |-> "no_overlap", object_ |-> object_,
                 returned |-> IF Len(objects) < 1 THEN TRUE
                              ELSE IF \E k \in 1 .. Len(objects) : Overlaps(objects[k], object_)
                                     THEN FALSE
                                     ELSE TRUE]
  /\ UNCHANGED <<comms, mpi_error, handles, impls, use_count, last, me, request, job, matrices,
                 call, channel, objects, cvars>>

\* Geometry::is_valid
Geometry_is_valid ==
  /\ outcome' = [op |-> "is_valid",
                 returned |-> IF Len(objects) = 0 THEN FALSE
                              ELSE IF \E i \in 1 .. Len(objects), j \in 1 .. Len(objects) :
                                        Overlaps(objects[i], objects[j])
                                     THEN FALSE
                                     ELSE TRUE]
  /\ UNCHANGED <<comms, mpi_error, handles, impls, use_count, last, me, request, job, matrices,
                 call, channel, objects, cvars>>

InitGeometry ==
  /\ InitNoMpi
  /\ InitNoMatrix
  /\ InitNoGeometry

NextGeometry ==
  \/ \E object_ \in Scatterers : pushObject(object_)
  \/ \E object_ \in Scatterers : no_overlap(object_)
  \/ Geometry_is_valid

\* ------------------------------------------------------ the handle layer
\* MPI_Init has run: the world group exists, the process under observation holds
\* no handle yet.
InitHandles ==
  /\ me \in Proc
  /\ InitExtra
  /\ comms = [c \in CommId |-> IF c = MPI_COMM_WORLD
                                 THEN [i \in 1 .. NProcs |-> i - 1] ELSE <<>>]
  /\ mpi_error = FALSE
  /\ handles = [p \in Proc |-> [h \in HandleId |-> NoObject]]
  /\ impls = [p \in Proc |-> [i \in ImplId |-> NoImpl]]
  /\ use_count = [p \in Proc |-> [i \in ImplId |-> 0]]
  /\ last = Idle
  /\ pc = [p \in Proc |-> "idle"]
  /\ args = [p \in Proc |-> NoArgs]
  /\ granted = NoOne
  /\ result = [p \in Proc |-> <<>>]
  /\ wire = {}
  /\ plan = NoPlan
  /\ topology = NoTopology

NextHandles ==
  \/ ConstructWorld(me)
  \/ ConstructNoGroup(me)
  \/ \E h \in HandleId : Copy(me, h)
  \/ \E h \in HandleId : Destroy(me, h)
  \/ \E h \in HandleId : Duplicate(me, h)
  \/ \E h \in HandleId : Clone(me, h)
  \/ \E h \in HandleId : Split(me, h)
  \/ \E h \in HandleId : SplitByColor(me, h)

vars == <<hvars, cvars>>
Init == InitHandles
Next == NextHandles
Spec == Init /\ [][Next]_vars
SpecSplit == InitSplit /\ [][NextSplit]_vars
SpecColl == InitColl /\ [][NextColl]_vars
SpecGraph == InitGraph /\ [][NextGraph]_vars
SpecVector == InitVector /\ [][NextVector]_vars
\* Every process runs its program to the end, and the runtime completes a
\* collective every member of which has called.
GraphFairness ==
  \A p \in Proc :
    WF_vars(GraphEnter(p) \/ GraphReturn(p) \/ AllgatherCall(p) \/ AllgatherReturn(p))
SpecGraphLive == InitGraph /\ [][NextGraph]_vars /\ GraphFairness
SpecMatrix == InitMatrix /\ [][NextMatrix]_vars
SpecTransfer == InitTransfer /\ [][NextTransfer]_vars
SpecStaging == InitStaging /\ [][NextTransfer]_vars
SpecGeometry == InitGeometry /\ [][NextGeometry]_vars
\* Every process of the handle calls the two redistributions, and the runtime
\* delivers what was sent.
TransferFairness ==
  \A p \in GridRanks : WF_vars(\E k \in 1 .. 2 : TransferEnter(p, k) \/ TransferReturn(p, k))
SpecTransferLive == InitTransferLive /\ [][NextTransfer]_vars /\ TransferFairness

\* ------------------------------------------------------------------ claims
LiveHandles == {h \in HandleId : Live(me, h)}
WrappingHandles == {h \in HandleId : Wraps(me, h)}

\* C1: a native group other than the world group exists exactly as long as some
\* handle of the process references it: it is released by the destructor of the
\* last such handle, by no destructor before it, and never a second time. Every
\* Impl is there as long as a handle holds it, its count the number of its handles.
C1_ReleasedExactlyOnce ==
  /\ ~mpi_error
  /\ \A i \in ImplId :
       /\ use_count[me][i] = Cardinality({h \in WrappingHandles : handles[me][h].impl = i})
       /\ use_count[me][i] > 0 => impls[me][i] # NoImpl
  /\ \A c \in CommId \ {MPI_COMM_WORLD} :
       Created(c) <=> \E h \in HandleId : HandleOn(me, h, c)
  /\ last.op = "destroy" =>
       \A c \in last.comm \ {MPI_COMM_WORLD} :
         c \in last.freed <=> ~\E h \in HandleId : HandleOn(me, h, c)

\* The destructor of the last handle over a group has released it, the groups of
\* the other handles staying.
C1_Witness ==
  /\ last.op = "destroy"
  /\ last.freed # {}
  /\ \A c \in last.freed : ~Created(c)
  /\ \E h \in WrappingHandles : Deref(me, h) # MPI_COMM_WORLD

\* C2: the world group is never released: it is there, with every process in it,
\* whatever handles over it were made, copied and destroyed.
C2_WorldNeverReleased ==
  /\ Created(MPI_COMM_WORLD)
  /\ comms[MPI_COMM_WORLD] = [i \in 1 .. NProcs |-> i - 1]
  /\ MPI_COMM_WORLD \notin last.freed
  /\ ~mpi_error

\* The last handle over the world group has just been destroyed.
C2_Witness ==
  /\ last.op = "destroy"
  /\ last.comm = {MPI_COMM_WORLD}
  /\ ~\E h \in HandleId : HandleOn(me, h, MPI_COMM_WORLD)

\* C6: the handle duplicate() or clone() returns has the size and the rank of the
\* handle it was called on and another native group, held by an Impl and a control
\* block of its own; and no destructor leaves a live handle without its group.
C6_DuplicateDistinct ==
  /\ last.op \in {"duplicate", "clone"} =>
       LET h == last.src[me]
           g == last.dst[me]
       IN /\ Wraps(me, h) /\ Wraps(me, g)
          /\ size(me, g) = size(me, h)
          /\ rank(me, g) = rank(me, h)
          /\ ~SameComm(me, h, g)
          /\ comms[Deref(me, g)] = comms[Deref(me, h)]
          /\ handles[me][g].impl # handles[me][h].impl
          /\ use_count[me][handles[me][g].impl] = 1
  /\ last.op = "destroy" => \A h \in WrappingHandles : Created(Deref(me, h))

\* clone() has returned a handle on a group of more than one process.
C6_Witness ==
  /\ last.op = "clone"
  /\ size(me, last.dst[me]) > 1
  /\ ~SameComm(me, last.src[me], last.dst[me])

\* C7: every handle has rank() < size(); the handle over no group reports rank 0
\* and size 1; a handle over the world group reports what the runtime reports.
C7_RankBelowSize ==
  \A h \in LiveHandles :
    /\ rank(me, h) < size(me, h)
    /\ handles[me][h].impl = nullptr => rank(me, h) = 0 /\ size(me, h) = 1
    /\ HandleOn(me, h, MPI_COMM_WORLD) =>
         /\ size(me, h) = MPI_Comm_size(comms[MPI_COMM_WORLD])
         /\ rank(me, h) = MPI_Comm_rank(comms[MPI_COMM_WORLD], me)
         /\ size(me, h) = NProcs
    /\ Wraps(me, h) =>
         /\ size(me, h) = MPI_Comm_size(comms[Deref(me, h)])
         /\ rank(me, h) = MPI_Comm_rank(comms[Deref(me, h)], me)

\* A handle over no group, one over the world group and one split made, at once.
C7_Witness ==
  /\ last.op = "split"
  /\ \E h \in LiveHandles : handles[me][h].impl = nullptr
  /\ \E h \in LiveHandles : HandleOn(me, h, MPI_COMM_WORLD)
  /\ \E h \in WrappingHandles : Deref(me, h) # MPI_COMM_WORLD

\* C8: the copy of a handle holds the very Impl of its origin, so the same group,
\* size and rank; what split, duplicate and clone return is over another group than
\* the handle they were called on; and two handles over the same group report the
\* same size and rank, and share one Impl unless the group is the world group.
C8_CopyShallow ==
  /\ last.op = "copy" =>
       LET h == last.src[me]
           g == last.dst[me]
       IN /\ Live(me, h) /\ Live(me, g)
          /\ handles[me][g].impl = handles[me][h].impl
          /\ size(me, g) = size(me, h)
          /\ rank(me, g) = rank(me, h)
          /\ Wraps(me, h) => SameComm(me, h, g)
  /\ last.op \in {"split", "duplicate", "clone"} =>
       ~SameComm(me, last.src[me], last.dst[me])
  /\ \A h, g \in WrappingHandles :
       /\ SameComm(me, h, g) => size(me, h) = size(me, g) /\ rank(me, h) = rank(me, g)
       /\ Deref(me, h) # MPI_COMM_WORLD =>
            (SameComm(me, h, g) <=> handles[me][h].impl = handles[me][g].impl)

\* A handle over a group that is not the world group has been copied, while a
\* handle over another group is alive.
C8_Witness ==
  /\ last.op = "copy"
  /\ Wraps(me, last.src[me])
  /\ Deref(me, last.src[me]) # MPI_COMM_WORLD
  /\ SameComm(me, last.src[me], last.dst[me])
  /\ \E h \in WrappingHandles : ~SameComm(me, h, last.src[me])

\* The members of the split group that have their new handle, and that handle.
Done == {p \in Proc : pc[p] = "done"}
NewHandle(p) == last.dst[p]
OldRank(p) == rank(p, Parent(p))

\* C3: the new groups partition the members by colour, the ranks in a new group
\* are 0..k-1 in ascending order of key, and where the members called the
\* one-argument overload the new ranks keep the order of the old ones.
C3_SplitPartition ==
  \A p \in Done :
    LET mates == {q \in Proc : args[q].color = args[p].color}
    IN /\ Members(comms[Deref(p, NewHandle(p))]) = mates
       /\ size(p, NewHandle(p)) = Cardinality(mates)
       /\ rank(p, NewHandle(p)) < size(p, NewHandle(p))
       /\ \A q \in Done \ {p} :
            /\ args[q].color = args[p].color <=>
                 Deref(q, NewHandle(q)) = Deref(p, NewHandle(p))
            /\ args[q].color = args[p].color =>
                 /\ rank(q, NewHandle(q)) # rank(p, NewHandle(p))
                 /\ args[q].key < args[p].key => rank(q, NewHandle(q)) < rank(p, NewHandle(p))
                 /\ (args[q].overload /\ args[p].overload /\ OldRank(q) < OldRank(p)) =>
                      rank(q, NewHandle(q)) < rank(p, NewHandle(p))

\* Two members of one colour have returned, the keys they passed having turned
\* their order around.
C3_Witness ==
  \E p, q \in Done :
    /\ args[p].color = args[q].color
    /\ OldRank(p) < OldRank(q)
    /\ rank(p, NewHandle(p)) > rank(q, NewHandle(q))

\* The process holding the rank p passed as root, and the members that are not it.
RootProc(p) == MemberOfRank(p, Parent(p), args[p].root)
NonRoots == {p \in Proc : rank(p, Parent(p)) # plan.root}

\* C4: every member whose broadcast has returned holds what the root's buffer
\* held, which is the value the root passed when it called the value form,
\* whatever the member itself passed and whichever form it called.
C4_BroadcastRootValue ==
  plan.op = "broadcast" =>
    \A p \in Done :
      /\ args[p].root = plan.root
      /\ pc[RootProc(p)] \in {"in_bcast", "done"}
      /\ Len(result[p]) = 1
      /\ args[RootProc(p)].form = "value" => result[p] = <<args[RootProc(p)].value>>
      /\ \A q \in Done : result[q] = result[p]

\* Every member has returned from a broadcast whose root is not rank 0, one
\* non-root having passed a placeholder other than the root's value, another
\* having called the value-less form.
C4_Witness ==
  /\ plan.op = "broadcast"
  /\ plan.root # root_id
  /\ Done = Proc
  /\ args[MemberOfRank(0, Parent(0), plan.root)].form = "value"
  /\ \E p \in NonRoots :
       /\ args[p].form = "value"
       /\ args[p].value # args[RootProc(p)].value
       /\ result[p] = <<args[RootProc(p)].value>>
  /\ \E p \in NonRoots : args[p].form = "valueless"

\* C5: a root whose gather has returned holds a vector of size() elements, the
\* i-th the value the member of rank i passed; any other member whose gather has
\* returned holds the empty vector.
C5_GatherByRank ==
  plan.op = "gather" =>
    \A p \in Done :
      LET h == Parent(p) IN
      /\ args[p].root = plan.root
      /\ rank(p, h) = args[p].root =>
           /\ Len(result[p]) = size(p, h)
           /\ \A rk \in 0 .. (size(p, h) - 1) :
                /\ args[MemberOfRank(p, h, rk)].root = plan.root
                /\ result[p][rk + 1] = args[MemberOfRank(p, h, rk)].value
      /\ rank(p, h) # args[p].root => result[p] = <<>>

\* Every member has returned from a gather to a root that is not rank 0, the
\* members not having all passed the same value.
C5_Witness ==
  /\ plan.op = "gather"
  /\ plan.root # root_id
  /\ Done = Proc
  /\ \E p, q \in Proc : args[p].value # args[q].value
  /\ \E p \in Proc : Len(result[p]) = NProcs
  /\ \E p \in Proc : result[p] = <<>>

\* The members that called with a root that is no rank of the group.
Faulty == {p \in Proc : pc[p] # "idle" /\ args[p].root >= size(p, Parent(p))}

\* C9: a call of broadcast or gather with root >= size() ends in the assertion
\* and nowhere else: the step that makes it sends and receives no message and
\* leaves every other member as it was, the caller has no result and no message
\* of its own under way.
C9_FaultBeforeCommunication ==
  [][/\ \A p \in Faulty' :
          /\ pc'[p] = "faulted"
          /\ result'[p] = <<>>
          /\ \A m \in wire' : m.src # rank(p, Parent(p)) /\ m.dst # args'[p].root
     /\ \A p \in Faulty' \ Faulty :
          /\ wire' = wire
          /\ \A q \in Proc \ {p} :
               pc'[q] = pc[q] /\ result'[q] = result[q] /\ args'[q] = args[q]
          /\ UNCHANGED hvars]_vars

\* A member has faulted while another is in the collective, its message under way.
C9_Witness ==
  /\ \E p \in Proc : pc[p] = "faulted"
  /\ \E q \in Proc : pc[q] \in {"in_bcast", "in_gather"}
  /\ wire # {}

\* C10: on a graph group built from tables that agree, a process whose allgather
\* has returned holds as many elements as the source list it passed has entries,
\* which is its in-degree, the i-th being the value the i-th process of that list
\* passed.
C10_AllgatherSourceOrder ==
  plan.op = "allgather" =>
    \A p \in Done :
      LET g == NewHandle(p)
          srcs == plan.sources[p]
      IN /\ nedges(p, g)[1] = Len(srcs)
         /\ nedges(p, g)[2] = Len(plan.destinations[p])
         /\ Len(result[p]) = Len(srcs)
         /\ \A i \in 1 .. Len(srcs) :
              /\ pc[MemberOfRank(p, g, srcs[i])] \in {"in_allgather", "done"}
              /\ result[p][i] = args[MemberOfRank(p, g, srcs[i])].value

\* Every process has returned from allgather; one listed its two sources from the
\* higher rank to the lower and received two different values, one has a
\* destination and no source.
C10_Witness ==
  /\ plan.op = "allgather"
  /\ Done = Proc
  /\ \E p \in Proc :
       /\ Len(plan.sources[p]) = 2
       /\ plan.sources[p][1] > plan.sources[p][2]
       /\ result[p][1] # result[p][2]
  /\ \E p \in Proc : plan.sources[p] = <<>> /\ Len(plan.destinations[p]) = 1
                      /\ result[p] = <<>>

\* The vectors of the sources of p one after the other, in source-list order.
RECURSIVE Concatenation(_, _)
Concatenation(p, i) ==
  IF i > Len(plan.sources[p]) THEN <<>>
  ELSE Input(plan.sources[p][i]) \o Concatenation(p, i + 1)

\* C11: with receive_counts[i] the length of the vector of sources[i], a process
\* whose allgatherv has returned, or whose iallgatherv has completed, holds the
\* vectors of its sources one after the other in source-list order, as many
\* entries as the counts add up to.
C11_ConcatenationInSourceOrder ==
  \A p \in Done :
    /\ args[p].counts = ReceiveCounts(p)
    /\ \A i \in 1 .. Len(plan.sources[p]) :
         args[p].counts[i] = Len(args[MemberOfRank(p, NewHandle(p), plan.sources[p][i])].input)
    /\ Len(result[p]) = Sum(args[p].counts)
    /\ result[p] = Concatenation(p, 1)

\* Every process is done; one of them listed its two sources from the higher rank
\* to the lower and received a longer vector before a shorter one.
C11_Witness ==
  /\ Done = Proc
  /\ \E p \in Proc :
       /\ Len(plan.sources[p]) = 2
       /\ plan.sources[p][1] > plan.sources[p][2]
       /\ args[p].counts = <<2, 1>>
       /\ Len(result[p]) = 3

\* What holds of the request of p and of its result buffer in every state.
RequestState(p) ==
  /\ request[p] = "none" <=> pc[p] \notin {"posted", "done"} \/ plan.form # "iallgatherv"
  /\ request[p] = "active" <=> pc[p] = "posted"
  /\ request[p] = "inactive" =>
       /\ pc[p] = "done"
       /\ TransferComplete(p)
       /\ \A m \in wire : m.dst # rank(p, NewHandle(p))
       /\ result[p] = Concatenation(p, 1)

Isolated == {p \in Proc : plan.sources[p] = <<>> /\ plan.destinations[p] = <<>>}

\* C13: a process without sources and destinations takes part in the building of
\* the graph group, which no process leaves before it has called; no message
\* leaves it or is meant for it, and its allgather returns the empty sequence; and
\* the calls of every process, it included, eventually return.
C13_IsolatedDoesNotBlock ==
  /\ [](\A p \in Isolated :
          /\ \A q \in Proc : pc[q] \in {"built", "in_allgather", "done"} => pc[p] # "idle"
          /\ \A m \in wire : m.src # p /\ m.dst # p
          /\ pc[p] = "done" => result[p] = <<>> /\ nedges(p, NewHandle(p)) = <<0, 0, FALSE>>)
  /\ <>[](\A p \in Proc : pc[p] = "done")

\* Every process has returned, one of them without neighbours, the two others
\* having exchanged their values.
C13_Witness ==
  /\ Done = Proc
  /\ Isolated # {}
  /\ \E q, r \in Proc \ Isolated : q # r /\ result[q] # <<>> /\ result[r] # <<>>

RECURSIVE SumOver(_, _)
SumOver(f, S) == IF S = {} THEN 0 ELSE LET x == CHOOSE y \in S : TRUE IN f[x] + SumOver(f, S \ {x})

\* C14: every element of the global matrix falls to exactly one process of the
\* grid; the local block the constructor makes on a process of the grid has as many
\* rows and columns as that process owns, its local indices standing for exactly
\* the owned elements; and the local blocks of the grid add up to the global matrix
\* (as they do for 10 x 10, blocks of 2 x 2, on 2 x 2 processes).
C14_LocalExtentsCoverGlobal ==
  /\ job.op = "construct" =>
       /\ \A i \in 0 .. job.size.rows - 1, j \in 0 .. job.size.cols - 1 :
            Cardinality({p \in GridOf(job.a) : i \in OwnedRows(job.a, p) /\ j \in OwnedCols(job.a, p)}) = 1
       /\ \A p \in GridOf(job.a) :
            Constructed("a", p) =>
              LET m == matrices["a"][p] IN
              /\ eigen(m).rows = Cardinality(OwnedRows(job.a, p))
              /\ eigen(m).cols = Cardinality(OwnedCols(job.a, p))
              /\ {<<GlobalRow(m, p, ij[1]), GlobalCol(m, p, ij[2])>> : ij \in DOMAIN eigen(m).coeff}
                   = OwnedRows(job.a, p) \X OwnedCols(job.a, p)
       /\ (\A p \in GridOf(job.a) : Constructed("a", p)) =>
            SumOver([p \in GridOf(job.a) |-> eigen(matrices["a"][p]).rows * eigen(matrices["a"][p]).cols],
                    GridOf(job.a)) = job.size.rows * job.size.cols
  /\ numroc(10, 2, 0, 0, 2) + numroc(10, 2, 1, 0, 2) = 10
  /\ \A r \in 0 .. 1 : numroc(10, 2, r, 0, 2) = Cardinality({g \in 0 .. 9 : (g \div 2) % 2 = r})

\* A matrix of 3 x 3 in blocks of 2 x 1, anchored away from the origin of a grid of
\* 2 x 2, is constructed everywhere, the local blocks being of different extents.
C14_Witness ==
  /\ job.op = "construct"
  /\ job.size = [rows |-> 3, cols |-> 3]
  /\ job.a.blocks = [rows |-> 2, cols |-> 1]
  /\ job.a.index = [row |-> 1, col |-> 1]
  /\ ContextSize(job.a.context) = 4
  /\ \A p \in GridRanks : Constructed("a", p)
  /\ \E p, q \in GridRanks :
       /\ eigen(matrices["a"][p]).rows = 2 /\ eigen(matrices["a"][p]).cols = 1
       /\ eigen(matrices["a"][q]).rows = 1 /\ eigen(matrices["a"][q]).cols = 2

\* The descriptor of matrix a on process p is the one its constructor was asked
\* for, and the accessors give the arguments of the constructor back.
DescriptorOf(p) ==
  LET m == matrices["a"][p] IN
  /\ Len(blacs(m)) = 9
  /\ blacs(m) = <<1, IF is_valid(job.a.context, p) THEN job.a.context.id ELSE -1,
                  job.size.rows, job.size.cols, job.a.blocks.rows, job.a.blocks.cols,
                  job.a.index.row, job.a.index.col, local_leading(m)>>
  /\ sizes(m) = job.size
  /\ rows(m) = job.size.rows
  /\ cols(m) = job.size.cols
  /\ blocks(m) = job.a.blocks
  /\ index(m) = job.a.index
  /\ context(m) = job.a.context

FirstDone(p) == call[p].at \in {"first_done", "in_second", "done"}

Holds(name, l, p) ==
  LET m == matrices[name][p] IN
  /\ {<<GlobalRow(m, p, ij[1]), GlobalCol(m, p, ij[2])>> : ij \in DOMAIN eigen(m).coeff} = Owned(l, p)
  /\ \A ij \in DOMAIN eigen(m).coeff :
       eigen(m).coeff[ij] = Element(GlobalRow(m, p, ij[1]), GlobalCol(m, p, ij[2]))

Larger(x, y) == IF ContextSize(x) > ContextSize(y) THEN x ELSE y
\* The redistribution process p entered last.
Entered(p) == IF call[p].at \in {"in_first", "first_done"} THEN 1 ELSE 2

\* C15: whichever overload of transfer_to is called, the staging context is the
\* context of the source matrix when that has strictly more processes than the
\* context of the target, and the context of the target otherwise.
C15_StagingIsLargerContext ==
  \A p \in GridRanks :
    call[p].at # "idle" =>
      call[p].un = Larger(SourceLayout(Entered(p)).context, TargetLayout(Entered(p)).context)

\* A process has entered transfer_to(Matrix &) from 2 x 2 processes to one process.
C15_Witness ==
  /\ job.form = "matrix"
  /\ ContextSize(job.a.context) = 4 /\ ContextSize(job.b.context) = 1
  /\ job.size = [rows |-> 2, cols |-> 2]
  /\ \E p \in GridRanks : call[p].at \in {"in_first", "first_done"}

\* The centres of two spheres are further apart than the sum of their radii.
Apart(a, b) ==
  \A d \in 0 .. (a.radius + b.radius) : d * d < DistanceSquared(a.vR, b.vR)
\* Scatterer s is apart from every stored scatterer.
Fits(s) == \A k \in 1 .. Len(objects) : Apart(objects[k], s)

\* C19: the stored scatterers are pairwise apart, neither overlapping nor touching;
\* a pushObject of a scatterer that is not apart from some stored one throws and
\* leaves the list as it was, any other pushObject appends its argument at the end;
\* and no_overlap returns true exactly for the scatterers pushObject would accept.
C19_PushKeepsScatterersApart ==
  [][/\ \A i \in 1 .. Len(objects'), j \in 1 .. Len(objects') :
          i # j => Apart(objects'[i], objects'[j])
     /\ outcome'.op = "pushObject" =>
          IF Fits(outcome'.object_)
            THEN ~outcome'.threw /\ objects' = objects \o <<outcome'.object_>>
            ELSE outcome'.threw /\ objects' = objects
     /\ outcome'.op = "no_overlap" =>
          /\ outcome'.returned <=> Fits(outcome'.object_)
          /\ objects' = objects
     /\ outcome'.op = "is_valid" => objects' = objects]_vars

\* Two scatterers are stored, and a push of one that touches a stored one without
\* overlapping it has just thrown.
C19_Witness ==
  /\ Len(objects) = 2
  /\ outcome.op = "pushObject" /\ outcome.threw
  /\ \E k \in 1 .. 2 :
       DistanceSquared(objects[k].vR, outcome.object_.vR)
         = (objects[k].radius + outcome.object_.radius) * (objects[k].radius + outcome.object_.radius)

\* C20: is_valid returns true exactly when the geometry holds a scatterer and its
\* scatterers are pairwise apart; so it returns true on every geometry that
\* successful calls of pushObject have filled.
C20_ValidWhenNonEmptyAndApart ==
  outcome.op = "is_valid" =>
    /\ outcome.returned <=>
         /\ Len(objects) >= 1
         /\ \A i \in 1 .. Len(objects), j \in 1 .. Len(objects) :
              i # j => Apart(objects[i], objects[j])
    /\ Len(objects) >= 1 => outcome.returned

\* is_valid has returned on a geometry of two scatterers that are apart.
C20_Witness ==
  /\ outcome.op = "is_valid"
  /\ Len(objects) = 2
  /\ Apart(objects[1], objects[2])
  /\ ~outcome.returned
====
